---- MODULE Spec2Model ----
(***************************************************************************)
(* bun2nix: decoding of one bun.lock package entry into a nix fetcher.     *)
(*                                                                         *)
(* A Rust String is a sequence of one-character strings.  Option<T> is a   *)
(* sequence of length 0 (None) or 1 (Some).  Positions are 0-based byte    *)
(* offsets as in Rust; SubSeq is 1-based, hence the +1 where they meet.    *)
(***************************************************************************)
EXTENDS Integers, Sequences, FiniteSets, TLC

VARIABLES
    entry,      \* the lockfile entry handed to the decoder: [name, values]
    debug,      \* TRUE in a build with debug assertions, FALSE in a release build
    pc,         \* the function the decoder is in (or "done")
    name,       \* PackageDeserializer.name / the ident argument of to_npm_url
    values,     \* PackageDeserializer.values, mutated by swap_remove_value
    loc,        \* the locals of the running function
    calls,      \* the locators Prefetch::prefetch_package was called with, in order
    result      \* what the decode returned: none yet, Ok, Err or a panic

vars == <<entry, debug, pc, name, values, loc, calls, result>>

----------------------------------------------------------------------------
(* Bounds of the model *)

\* longest free-form text (identifier body, npm identifier) that is enumerated
MaxLen == 5

\* longest entry (number of values) that is enumerated; the decoders cover 1..4
MaxArity == 5

\* longest Values vector handed to swap_remove_value on its own
MaxVec == 3

----------------------------------------------------------------------------
(* Option *)

None == <<>>

Some(x) == <<x>>

IsSome(o) == o # <<>>

Unwrap(o) == o[1]

----------------------------------------------------------------------------
(* String literals of the source *)

Quote == "\""

Backslash == "\\"

DEFAULT_REGISTRY == <<"h", "t", "t", "p", "s", ":", "/", "/", "r", "e", "g", "i", "s", "t", "r", "y", ".", "n", "p", "m", "j", "s", ".", "o", "r", "g", "/">>

GithubPrefix == <<"g", "i", "t", "h", "u", "b", ":">>

GitPlus == <<"g", "i", "t", "+">>

GitColon == <<"g", "i", "t", ":">>

RefQuery == <<"?", "r", "e", "f", "=">>

RevQuery == <<"?", "r", "e", "v", "=">>

TarballColon == <<"t", "a", "r", "b", "a", "l", "l", ":">>

Http == <<"h", "t", "t", "p">>

FileColon == <<"f", "i", "l", "e", ":">>

WorkspaceColon == <<"w", "o", "r", "k", "s", "p", "a", "c", "e", ":">>

Sha512 == <<"s", "h", "a", "5", "1", "2", "-">>

DashSlash == <<"/", "-", "/">>

Tgz == <<".", "t", "g", "z">>

----------------------------------------------------------------------------
(* str / String methods of the Rust standard library used by the source *)

\* the 0-based positions at which sub occurs in s
Occurrences(s, sub) ==
    {i \in 0..(Len(s) - Len(sub)) : SubSeq(s, i + 1, i + Len(sub)) = sub}

\* str::find: position of the first occurrence
find(s, sub) ==
    LET M == Occurrences(s, sub)
    IN  IF M = {} THEN None ELSE Some(CHOOSE i \in M : \A j \in M : i <= j)

\* str::rfind: position of the last occurrence
rfind(s, sub) ==
    LET M == Occurrences(s, sub)
    IN  IF M = {} THEN None ELSE Some(CHOOSE i \in M : \A j \in M : i >= j)

\* str::contains
contains(s, sub) == Occurrences(s, sub) # {}

\* str::starts_with
starts_with(s, prefix) ==
    /\ Len(prefix) <= Len(s)
    /\ SubSeq(s, 1, Len(prefix)) = prefix

\* str::ends_with
ends_with(s, suffix) ==
    /\ Len(suffix) <= Len(s)
    /\ SubSeq(s, Len(s) - Len(suffix) + 1, Len(s)) = suffix

\* str::split_once: the text before and after the first occurrence of delim
split_once(s, delim) ==
    LET p == find(s, delim)
    IN  IF p = None THEN None
        ELSE Some(<<SubSeq(s, 1, Unwrap(p)),
                    SubSeq(s, Unwrap(p) + Len(delim) + 1, Len(s))>>)

----------------------------------------------------------------------------
(* serde_json::Value: a JSON string with its content, or the empty object *)

StringValue(s) == [kind |-> "string", s |-> s]

ObjectValue == [kind |-> "object", s |-> <<>>]

\* the escape serde_json writes for one character of a string
escape_char(c) ==
    IF c = Quote THEN <<Backslash, Quote>>
    ELSE IF c = Backslash THEN <<Backslash, Backslash>>
    ELSE <<c>>

\* serde_json's string escaping: every quote and backslash gets a backslash
RECURSIVE format_escaped_str(_)
format_escaped_str(s) ==
    IF s = <<>> THEN <<>>
    ELSE escape_char(Head(s)) \o format_escaped_str(Tail(s))

\* Value::to_string: the JSON text of the value
to_string(v) ==
    IF v.kind = "string"
    THEN <<Quote>> \o format_escaped_str(v.s) \o <<Quote>>
    ELSE <<"{", "}">>

\* Value::as_str: the content of a JSON string, None for any other value
as_str(v) == IF v.kind = "string" THEN Some(v.s) ELSE None

----------------------------------------------------------------------------
(* The ownership-transfer helpers of package_deserializer.rs *)

\* Vec::remove in place of Vec::swap_remove: the later elements shift down
swap_remove_shifting(vec, index) ==
    <<vec[index + 1], SubSeq(vec, 1, index) \o SubSeq(vec, index + 2, Len(vec))>>

\* Vec::swap_remove: <<the element at index, the vector without it>>, the last
\* element moved into the hole
swap_remove(vec, index) ==
    LET n == Len(vec)
        moved == [vec EXCEPT ![index + 1] = vec[n]]
    IN  <<vec[index + 1], SubSeq(moved, 1, n - 1)>>

\* String::drain(from..to).collect(): the characters at 0-based from..to-1
drain_collect(s, from, to) == SubSeq(s, from + 1, to)

\* swap_remove_value: the text taken, the vector left, and whether both debug
\* assertions (starts with a quote, ends with a quote) hold
swap_remove_value(vec, index) ==
    LET r == swap_remove(vec, index)
        value == to_string(r[1])
    IN  [value   |-> drain_collect(value, 1, Len(value) - 1),
         values  |-> r[2],
         asserts |-> starts_with(value, <<Quote>>) /\ ends_with(value, <<Quote>>)]

\* split_once_owned: Some(<<before, after>>) around the first occurrence of char
split_once_owned(input, char) ==
    LET split_pos == find(input, <<char>>)
    IN  IF split_pos = None THEN None
        ELSE LET first == drain_collect(input, 0, Unwrap(split_pos) + 1)
                 rest == SubSeq(input, Unwrap(split_pos) + 2, Len(input))
             IN  Some(<<SubSeq(first, 1, Len(first) - 1), rest>>)

\* drop_prefix: input without prefix when it starts with it, input otherwise
drop_prefix(input, prefix) ==
    IF starts_with(input, prefix)
    THEN SubSeq(input, Len(prefix) + 1, Len(input))
    ELSE input

\* drain_after_substring: the text after the last occurrence of sub
drain_after_substring(input, sub) ==
    LET p == rfind(input, sub)
    IN  IF p = None THEN None
        ELSE Some(drain_collect(input, Unwrap(p) + Len(sub), Len(input)))

----------------------------------------------------------------------------
(* Result, Error, Package, Fetcher *)

Ok(v) == [tag |-> "Ok", v |-> v]

Err(e) == [tag |-> "Err", v |-> e]

Panic == [tag |-> "panic", v |-> <<>>]

Pending == [tag |-> "none", v |-> <<>>]

\* Error variants are <<variant name>> or <<variant name, payload>>
UnexpectedPackageEntryLength(x) == <<"UnexpectedPackageEntryLength", x>>

NoAtInPackageIdentifier == <<"NoAtInPackageIdentifier">>

MissingGitRef == <<"MissingGitRef">>

ImproperGithubUrl == <<"ImproperGithubUrl">>

MissingFileSpecifier == <<"MissingFileSpecifier">>

MissingWorkspaceSpecifier == <<"MissingWorkspaceSpecifier">>

Package(n, fetcher) == [name |-> n, fetcher |-> fetcher]

FetchUrl(url, hash, n) == [type |-> "FetchUrl", url |-> url, hash |-> hash, name |-> n]

FetchGit(url, rev, hash) == [type |-> "FetchGit", url |-> url, rev |-> rev, hash |-> hash]

FetchGitHub(owner, repo, rev, hash) ==
    [type |-> "FetchGitHub", owner |-> owner, repo |-> repo, rev |-> rev, hash |-> hash]

FetchTarball(url, hash) == [type |-> "FetchTarball", url |-> url, hash |-> hash]

CopyToStore(path) == [type |-> "CopyToStore", path |-> path]

----------------------------------------------------------------------------
(* fetcher.rs *)

\* to_npm_url without the is_empty test: Some("") is returned as the URL
to_npm_url_empty_verbatim(ident, tarball_url) ==
    IF IsSome(tarball_url)
    THEN Ok(Unwrap(tarball_url))
    ELSE LET scoped == split_once(ident, <<"/">>)
         IN  IF scoped = None
             THEN LET nv == split_once(ident, <<"@">>)
                  IN  IF nv = None THEN Err(NoAtInPackageIdentifier)
                      ELSE Ok(DEFAULT_REGISTRY \o Unwrap(nv)[1] \o DashSlash
                              \o Unwrap(nv)[1] \o <<"-">> \o Unwrap(nv)[2] \o Tgz)
             ELSE LET user == Unwrap(scoped)[1]
                      nv == split_once(Unwrap(scoped)[2], <<"@">>)
                  IN  IF nv = None THEN Err(NoAtInPackageIdentifier)
                      ELSE Ok(DEFAULT_REGISTRY \o user \o <<"/">> \o Unwrap(nv)[1]
                              \o DashSlash \o Unwrap(nv)[1] \o <<"-">>
                              \o Unwrap(nv)[2] \o Tgz)

\* Fetcher::to_npm_url
to_npm_url(ident, tarball_url) ==
    IF IsSome(tarball_url) /\ Unwrap(tarball_url) # <<>>
    THEN Ok(Unwrap(tarball_url))
    ELSE LET scoped == split_once(ident, <<"/">>)
         IN  IF scoped = None
             THEN LET nv == split_once(ident, <<"@">>)
                  IN  IF nv = None THEN Err(NoAtInPackageIdentifier)
                      ELSE Ok(DEFAULT_REGISTRY \o Unwrap(nv)[1] \o DashSlash
                              \o Unwrap(nv)[1] \o <<"-">> \o Unwrap(nv)[2] \o Tgz)
             ELSE LET user == Unwrap(scoped)[1]
                      nv == split_once(Unwrap(scoped)[2], <<"@">>)
                  IN  IF nv = None THEN Err(NoAtInPackageIdentifier)
                      ELSE Ok(DEFAULT_REGISTRY \o user \o <<"/">> \o Unwrap(nv)[1]
                              \o DashSlash \o Unwrap(nv)[1] \o <<"-">>
                              \o Unwrap(nv)[2] \o Tgz)

\* Fetcher::extract_tgz_filename
extract_tgz_filename(ident) ==
    LET scoped == split_once(ident, <<"/">>)
        inner == IF scoped = None THEN None
                 ELSE split_once(Unwrap(scoped)[2], <<"@">>)
        plain == split_once(ident, <<"@">>)
    IN  IF inner # None
        THEN Unwrap(inner)[1] \o <<"-">> \o Unwrap(inner)[2] \o Tgz
        ELSE IF plain # None
        THEN Unwrap(plain)[1] \o <<"-">> \o Unwrap(plain)[2] \o Tgz
        ELSE ident \o Tgz

\* new_npm_package with the filename always set
new_npm_package_always_named(ident, hash, tarball_url) ==
    LET url == to_npm_url(ident, tarball_url)
    IN  IF url.tag = "Err" THEN url
        ELSE Ok(FetchUrl(url.v, hash, Some(extract_tgz_filename(ident))))

\* Fetcher::new_npm_package
new_npm_package(ident, hash, tarball_url) ==
    LET url == to_npm_url(ident, tarball_url)
        n == IF IsSome(tarball_url) /\ Unwrap(tarball_url) # <<>>
             THEN Some(extract_tgz_filename(ident))
             ELSE None
    IN  IF url.tag = "Err" THEN url
        ELSE Ok(FetchUrl(url.v, hash, n))

----------------------------------------------------------------------------
(* The inputs that are enumerated *)

RECURSIVE TextsOfLen(_, _)
TextsOfLen(alphabet, n) ==
    IF n = 0 THEN {<<>>}
    ELSE {<<c>> \o t : c \in alphabet, t \in TextsOfLen(alphabet, n - 1)}

\* every text over the alphabet of at most n characters
Texts(alphabet, n) == UNION {TextsOfLen(alphabet, k) : k \in 0..n}

\* the separators the decoders look for, and one ordinary character
SpecChars == {"a", "@", "/", "#"}

\* what an identifier may start with: nothing, a name, a name that needs a JSON escape
Prefixes == {<<>>, <<"a", "@">>, <<Quote, "@">>}

\* the scheme words the decoders look for (and a file path that starts with http)
Schemes == {<<>>, GithubPrefix, GitPlus, Http, FileColon, FileColon \o Http, WorkspaceColon}

\* identifiers of the documentation, the tests and real lockfiles
GithubExample ==
    <<"x", "@", "g", "i", "t", "h", "u", "b", ":", "o", "w", "n", "e", "r", "/", "r",
    "e", "p", "o", "#", "d", "e", "a", "d", "b", "e", "e", "f">>

FileExample ==
    <<"p", "k", "g", "@", "f", "i", "l", "e", ":", ".", "/", "l", "o", "c", "a", "l",
    "/", "p", "a", "t", "h">>

ScopedTarballExample ==
    <<"@", "s", "/", "p", "@", "h", "t", "t", "p", "s", ":", "/", "/", "r", ".", "i",
    "o", "/", "@", "s", "/", "p", ".", "t", "g", "z">>

SshGitExample ==
    <<"x", "@", "g", "i", "t", "+", "s", "s", "h", ":", "/", "/", "g", "i", "t", "@",
    "h", ".", "i", "o", "/", "r", ".", "g", "i", "t", "#", "a", "b", "c">>

NpmExample ==
    <<"@", "t", "y", "p", "e", "s", "/", "b", "u", "n", "@", "1", ".", "2", ".", "4">>

NpmUrlExample ==
    <<"@", "a", "l", "l", "o", "c", "/", "q", "u", "i", "c", "k", "-", "l", "r", "u",
    "@", "5", ".", "2", ".", "0">>

ExplicitUrlExample ==
    <<"h", "t", "t", "p", "s", ":", "/", "/", "n", "p", "m", ".", "p", "k", "g", ".",
    "g", "i", "t", "h", "u", "b", ".", "c", "o", "m", "/", "@", "a", "l", "l", "o", "c",
    "/", "q", "u", "i", "c", "k", "-", "l", "r", "u", "/", "-", "/", "q", "u", "i", "c",
    "k", "-", "l", "r", "u", "-", "5", ".", "2", ".", "0", ".", "t", "g", "z">>

ExampleIdentifiers == {GithubExample, FileExample, ScopedTarballExample, SshGitExample}

\* identifiers: prefix, scheme, then any text of at most MaxLen characters
Identifiers ==
    {p \o s \o b : p \in Prefixes, s \in Schemes, b \in Texts(SpecChars, MaxLen)}
    \cup ExampleIdentifiers

\* npm identifiers: any text of at most MaxLen characters, escapes included
NpmIdentifiers == Texts({"a", "@", "/", Quote}, MaxLen) \cup {NpmExample, NpmUrlExample}

\* a JSON value that is not the identifier
OtherValues == {ObjectValue, StringValue(<<"a">>)}

\* the tarball_url field of an npm entry
TarballUrls == {StringValue(<<>>), StringValue(<<"u", Quote>>), ObjectValue}

\* the hash field of an npm entry
Hashes == {StringValue(Sha512 \o <<"a">>), StringValue(<<"a", Quote>>), ObjectValue}

\* the entries of length n that are enumerated: the first value an identifier (or
\* not a string at all), the others as the layout of that length has them
EntriesOfLen(n) ==
    CASE n = 0 -> {<<>>}
      [] n = 1 -> {<<StringValue(i)>> : i \in Identifiers} \cup {<<ObjectValue>>}
      [] n = 2 -> {<<StringValue(i), x>> : i \in Identifiers, x \in OtherValues}
                  \cup {<<ObjectValue, ObjectValue>>}
      [] n = 3 -> {<<StringValue(i), ObjectValue, StringValue(<<"a">>)>> : i \in Identifiers}
                  \cup {<<ObjectValue, ObjectValue, ObjectValue>>}
      [] n = 4 -> {<<StringValue(i), u, m, h>> :
                     i \in NpmIdentifiers, u \in TarballUrls, m \in OtherValues, h \in Hashes}
                  \cup {<<ObjectValue, StringValue(<<>>), ObjectValue, StringValue(Sha512)>>}
      [] OTHER -> {[k \in 1..n |-> x] : x \in OtherValues}

EntryNames == {<<"n">>}

\* what the Prefetch collaborator may answer: a hash, or its error
PrefetchOutcomes == {Ok(<<"H">>), Ok(<<"G">>), Err(<<"Prefetch">>)}

NoLocals ==
    [id |-> <<>>, url |-> <<>>, rev |-> <<>>, path |-> <<>>,
     tarball_url |-> None, index |-> 0, prefetch |-> Pending]

----------------------------------------------------------------------------
(* The decoder *)

Init ==
    /\ \E n \in 0..MaxArity :
          entry \in {[name |-> e, values |-> v] : e \in EntryNames, v \in EntriesOfLen(n)}
    /\ debug \in BOOLEAN
    /\ pc = "deserialize_package"
    /\ name = entry.name
    /\ values = entry.values
    /\ loc = NoLocals
    /\ calls = <<>>
    /\ result = Pending

\* decoder_for with the npm arm taken for every length of 4 or more
decoder_for_open_ended(arity) ==
    CASE arity = 1 -> "deserialize_workspace_package"
      [] arity = 2 -> "deserialize_tarball_or_file_package"
      [] arity = 3 -> "deserialize_git_or_github_package"
      [] arity >= 4 -> "deserialize_npm_package"
      [] OTHER -> "done"

\* the function a match arm of deserialize_package runs, "done" for the error arm
decoder_for(arity) ==
    CASE arity = 1 -> "deserialize_workspace_package"
      [] arity = 2 -> "deserialize_tarball_or_file_package"
      [] arity = 3 -> "deserialize_git_or_github_package"
      [] arity = 4 -> "deserialize_npm_package"
      [] OTHER -> "done"

Return(r) ==
    /\ pc' = "done"
    /\ result' = r

deserialize_package ==
    /\ pc = "deserialize_package"
    /\ LET arity == Len(values)
       IN  /\ pc' = decoder_for(arity)
           /\ result' = IF decoder_for(arity) = "done"
                        THEN Err(UnexpectedPackageEntryLength(arity))
                        ELSE result
    /\ UNCHANGED <<entry, debug, name, values, loc, calls>>

\* Vec::get
get(vec, index) == IF index < Len(vec) THEN Some(vec[index + 1]) ELSE None

\* .and_then(|v| v.as_str()).filter(|s| !s.is_empty())
tarball_url_of(v) ==
    IF v = None THEN None
    ELSE LET s == as_str(Unwrap(v))
         IN  IF s # None /\ Unwrap(s) # <<>> THEN s ELSE None

deserialize_npm_package ==
    /\ pc = "deserialize_npm_package"
    /\ LET first == swap_remove_value(values, 0)
           npm_identifier_raw == first.value
           second == swap_remove_value(first.values, 0)
           hash == second.value
           tarball_url == tarball_url_of(get(second.values, 1))
           fetcher == new_npm_package(npm_identifier_raw, hash, tarball_url)
       IN  IF debug /\ ~first.asserts
           THEN values' = first.values /\ Return(Panic)
           ELSE /\ values' = second.values
                /\ IF debug /\ ~(second.asserts /\ contains(hash, Sha512))
                   THEN Return(Panic)
                   ELSE IF fetcher.tag = "Err"
                   THEN Return(fetcher)
                   ELSE Return(Ok(Package(npm_identifier_raw, fetcher.v)))
    /\ UNCHANGED <<entry, debug, name, loc, calls>>

deserialize_git_or_github_package ==
    /\ pc = "deserialize_git_or_github_package"
    /\ LET taken == swap_remove_value(values, 0)
           at_pos == rfind(taken.value, <<"@">>)
           id == SubSeq(taken.value, Unwrap(at_pos) + 2, Len(taken.value))
       IN  /\ values' = taken.values
           /\ IF debug /\ ~taken.asserts
              THEN Return(Panic) /\ loc' = loc
              ELSE IF at_pos = None
              THEN Return(Err(NoAtInPackageIdentifier)) /\ loc' = loc
              ELSE /\ loc' = [loc EXCEPT !.id = id]
                   /\ pc' = IF starts_with(id, GithubPrefix)
                            THEN "deserialize_github_package"
                            ELSE "deserialize_git_package"
                   /\ result' = result
    /\ UNCHANGED <<entry, debug, name, calls>>

\* deserialize_github_package up to its call of Prefetch::prefetch_package
deserialize_github_package ==
    /\ pc = "deserialize_github_package"
    /\ LET split == split_once_owned(loc.id, "#")
       IN  IF split = None
           THEN Return(Err(MissingGitRef)) /\ UNCHANGED <<loc, calls>>
           ELSE LET url == Unwrap(split)[1]
                    rev == Unwrap(split)[2]
                    prefetch_url == url \o RefQuery \o rev
                IN  /\ loc' = [loc EXCEPT !.url = url, !.rev = rev]
                    /\ calls' = Append(calls, prefetch_url)
                    /\ pc' = "prefetch_github"
                    /\ result' = result
    /\ UNCHANGED <<entry, debug, name, values>>

\* deserialize_github_package_prefetched with the owner/repo split tested before
\* the Prefetch result
deserialize_github_package_prefetched_split_first ==
    /\ pc = "prefetched_github"
    /\ LET split == split_once_owned(loc.url, "/")
           owner == drop_prefix(Unwrap(split)[1], GithubPrefix)
           repo == Unwrap(split)[2]
           id_with_ver == GithubPrefix \o owner \o <<"-">> \o repo \o <<"-">> \o loc.rev
       IN  IF split = None
           THEN Return(Err(ImproperGithubUrl))
           ELSE IF loc.prefetch.tag = "Err"
           THEN Return(loc.prefetch)
           ELSE Return(Ok(Package(id_with_ver,
                                  FetchGitHub(owner, repo, loc.rev, loc.prefetch.v))))
    /\ UNCHANGED <<entry, debug, name, values, loc, calls>>

\* deserialize_github_package from the return of Prefetch::prefetch_package
deserialize_github_package_prefetched ==
    /\ pc = "prefetched_github"
    /\ LET split == split_once_owned(loc.url, "/")
           owner == drop_prefix(Unwrap(split)[1], GithubPrefix)
           repo == Unwrap(split)[2]
           id_with_ver == GithubPrefix \o owner \o <<"-">> \o repo \o <<"-">> \o loc.rev
       IN  IF loc.prefetch.tag = "Err"
           THEN Return(loc.prefetch)
           ELSE IF split = None
           THEN Return(Err(ImproperGithubUrl))
           ELSE Return(Ok(Package(id_with_ver,
                                  FetchGitHub(owner, repo, loc.rev, loc.prefetch.v))))
    /\ UNCHANGED <<entry, debug, name, values, loc, calls>>

\* deserialize_git_package up to its call of Prefetch::prefetch_package
deserialize_git_package ==
    /\ pc = "deserialize_git_package"
    /\ LET git_url == drop_prefix(loc.id, GitPlus)
           split == split_once_owned(git_url, "#")
       IN  IF split = None
           THEN Return(Err(MissingGitRef)) /\ UNCHANGED <<loc, calls>>
           ELSE LET url == Unwrap(split)[1]
                    rev == Unwrap(split)[2]
                    prefetch_url == GitPlus \o url \o RevQuery \o rev
                IN  /\ loc' = [loc EXCEPT !.url = url, !.rev = rev]
                    /\ calls' = Append(calls, prefetch_url)
                    /\ pc' = "prefetch_git"
                    /\ result' = result
    /\ UNCHANGED <<entry, debug, name, values>>

\* deserialize_git_package from the return of Prefetch::prefetch_package
deserialize_git_package_prefetched ==
    /\ pc = "prefetched_git"
    /\ IF loc.prefetch.tag = "Err"
       THEN Return(loc.prefetch)
       ELSE Return(Ok(Package(GitColon \o loc.rev,
                              FetchGit(loc.url, loc.rev, loc.prefetch.v))))
    /\ UNCHANGED <<entry, debug, name, values, loc, calls>>

deserialize_tarball_or_file_package ==
    /\ pc = "deserialize_tarball_or_file_package"
    /\ LET taken == swap_remove_value(values, 0)
           path == drain_after_substring(taken.value, <<"@">>)
       IN  /\ values' = taken.values
           /\ IF debug /\ ~taken.asserts
              THEN Return(Panic) /\ loc' = loc
              ELSE IF path = None
              THEN Return(Err(NoAtInPackageIdentifier)) /\ loc' = loc
              ELSE IF starts_with(Unwrap(path), Http)
              THEN /\ loc' = [loc EXCEPT !.url = Unwrap(path)]
                   /\ pc' = "deserialize_tarball_package"
                   /\ result' = result
              ELSE /\ loc' = [loc EXCEPT !.path = Unwrap(path)]
                   /\ pc' = "deserialize_file_package"
                   /\ result' = result
    /\ UNCHANGED <<entry, debug, name, calls>>

deserialize_file_package ==
    /\ pc = "deserialize_file_package"
    /\ LET path == drain_after_substring(loc.path, FileColon)
       IN  IF debug /\ contains(loc.path, Http)
           THEN Return(Panic)
           ELSE IF path = None
           THEN Return(Err(MissingFileSpecifier))
           ELSE Return(Ok(Package(name, CopyToStore(Unwrap(path)))))
    /\ UNCHANGED <<entry, debug, name, values, loc, calls>>

\* deserialize_tarball_package up to its call of Prefetch::prefetch_package
deserialize_tarball_package ==
    /\ pc = "deserialize_tarball_package"
    /\ IF debug /\ ~contains(loc.url, Http)
       THEN Return(Panic) /\ calls' = calls
       ELSE /\ calls' = Append(calls, loc.url)
            /\ pc' = "prefetch_tarball"
            /\ result' = result
    /\ UNCHANGED <<entry, debug, name, values, loc>>

\* deserialize_tarball_package_prefetched with the Prefetch error dropped
\* (unwrap_or_default in place of ?)
deserialize_tarball_package_prefetched_unchecked ==
    /\ pc = "prefetched_tarball"
    /\ Return(Ok(Package(TarballColon \o loc.url,
                         FetchTarball(loc.url, IF loc.prefetch.tag = "Ok"
                                               THEN loc.prefetch.v ELSE <<>>))))
    /\ UNCHANGED <<entry, debug, name, values, loc, calls>>

\* deserialize_tarball_package from the return of Prefetch::prefetch_package
deserialize_tarball_package_prefetched ==
    /\ pc = "prefetched_tarball"
    /\ IF loc.prefetch.tag = "Err"
       THEN Return(loc.prefetch)
       ELSE Return(Ok(Package(TarballColon \o loc.url,
                              FetchTarball(loc.url, loc.prefetch.v))))
    /\ UNCHANGED <<entry, debug, name, values, loc, calls>>

deserialize_workspace_package ==
    /\ pc = "deserialize_workspace_package"
    /\ LET taken == swap_remove_value(values, 0)
           path == drain_after_substring(taken.value, WorkspaceColon)
       IN  /\ values' = taken.values
           /\ IF debug /\ ~taken.asserts
              THEN Return(Panic)
              ELSE IF path = None
              THEN Return(Err(MissingWorkspaceSpecifier))
              ELSE Return(Ok(Package(name, CopyToStore(Unwrap(path)))))
    /\ UNCHANGED <<entry, debug, name, loc, calls>>

\* the pc a caller waits at while Prefetch runs, and the pc it resumes at
AfterPrefetch(at) ==
    CASE at = "prefetch_github" -> "prefetched_github"
      [] at = "prefetch_git" -> "prefetched_git"
      [] at = "prefetch_tarball" -> "prefetched_tarball"

\* Prefetch::prefetch_package: the collaborator answers the last locator
prefetch_package ==
    /\ pc \in {"prefetch_github", "prefetch_git", "prefetch_tarball"}
    /\ \E outcome \in PrefetchOutcomes :
          loc' = [loc EXCEPT !.prefetch = outcome]
    /\ pc' = AfterPrefetch(pc)
    /\ UNCHANGED <<entry, debug, name, values, calls, result>>

Next ==
    \/ deserialize_package
    \/ deserialize_npm_package
    \/ deserialize_git_or_github_package
    \/ deserialize_github_package
    \/ deserialize_github_package_prefetched
    \/ deserialize_git_package
    \/ deserialize_git_package_prefetched
    \/ deserialize_tarball_or_file_package
    \/ deserialize_file_package
    \/ deserialize_tarball_package
    \/ deserialize_tarball_package_prefetched
    \/ deserialize_workspace_package
    \/ prefetch_package

Spec == Init /\ [][Next]_vars

----------------------------------------------------------------------------
(* Fetcher::to_npm_url called on its own *)

InitUrl ==
    /\ entry = [name |-> <<>>, values |-> <<>>]
    /\ debug \in BOOLEAN
    /\ pc = "to_npm_url"
    /\ name \in Texts({"a", "@", "/"}, MaxLen) \cup {NpmExample, NpmUrlExample}
    /\ values = <<>>
    /\ \E u \in {None, Some(<<>>), Some(<<"u">>), Some(ExplicitUrlExample)} :
          loc = [NoLocals EXCEPT !.tarball_url = u]
    /\ calls = <<>>
    /\ result = Pending

to_npm_url_call ==
    /\ pc = "to_npm_url"
    /\ Return(to_npm_url(name, loc.tarball_url))
    /\ UNCHANGED <<entry, debug, name, values, loc, calls>>

NextUrl == to_npm_url_call

SpecUrl == InitUrl /\ [][NextUrl]_vars

----------------------------------------------------------------------------
(* swap_remove_value called on its own *)

\* the JSON values a vector is filled with
VecValues ==
    {StringValue(<<>>), StringValue(<<"a">>), StringValue(<<"b", Quote>>), ObjectValue}

InitSwap ==
    /\ entry \in {[name |-> <<>>, values |-> v] :
                    v \in UNION {[1..n -> VecValues] : n \in 1..MaxVec}}
    /\ debug \in BOOLEAN
    /\ pc = "swap_remove_value"
    /\ name = <<>>
    /\ values = entry.values
    /\ \E i \in 0..(Len(entry.values) - 1) : loc = [NoLocals EXCEPT !.index = i]
    /\ calls = <<>>
    /\ result = Pending

swap_remove_value_call ==
    /\ pc = "swap_remove_value"
    /\ LET taken == swap_remove_value(values, loc.index)
       IN  /\ values' = taken.values
           /\ IF debug /\ ~taken.asserts
              THEN Return(Panic)
              ELSE Return(Ok(taken.value))
    /\ UNCHANGED <<entry, debug, name, loc, calls>>

NextSwap == swap_remove_value_call

SpecSwap == InitSwap /\ [][NextSwap]_vars

----------------------------------------------------------------------------
(* Vocabulary of the claims *)

\* the length of the entry that was handed in
Arity == Len(entry.values)

Done == pc = "done"

Returned(r) == result.tag = r.tag /\ result.v = r.v

ReturnedPackage == result.tag = "Ok"

\* the positions of each decoder family
WorkspacePcs == {"deserialize_workspace_package"}

TarballOrFilePcs ==
    {"deserialize_tarball_or_file_package", "deserialize_file_package",
     "deserialize_tarball_package", "prefetch_tarball", "prefetched_tarball"}

GitOrGithubPcs ==
    {"deserialize_git_or_github_package", "deserialize_github_package",
     "prefetch_github", "prefetched_github", "deserialize_git_package",
     "prefetch_git", "prefetched_git"}

NpmPcs == {"deserialize_npm_package"}

\* a JSON string value as it stands in the lockfile, without its quotes
InlineText(v) == format_escaped_str(v.s)

IsString(v) == v.kind = "string"

----------------------------------------------------------------------------
(* C1 *)

----------------------------------------------------------------------------
(* C2 *)

\* C2: hash provenance.  Prefetch is called at most once per decode and never for
\* an entry of length 4 or 1 nor in the file decoder; a FetchUrl carries the
\* entry's own inline hash; a FetchGit, FetchGitHub or FetchTarball was preceded
\* by exactly one Prefetch call, which succeeded, and carries its hash; a failed
\* Prefetch call makes the decode return that error and no Package.
C2_HashProvenance ==
    /\ Len(calls) <= 1
    /\ Arity \in {1, 4} => calls = <<>>
    /\ pc = "deserialize_file_package" => calls = <<>>
    /\ (result.tag = "Err" /\ result.v = MissingFileSpecifier) => calls = <<>>
    /\ result.tag = "panic" => calls = <<>>
    /\ ReturnedPackage =>
          LET f == result.v.fetcher
          IN  /\ f.type = "CopyToStore" => calls = <<>>
              /\ f.type = "FetchUrl" =>
                    /\ calls = <<>>
                    /\ IsString(entry.values[4]) => f.hash = InlineText(entry.values[4])
              /\ f.type \in {"FetchGit", "FetchGitHub", "FetchTarball"} =>
                    /\ Len(calls) = 1
                    /\ loc.prefetch.tag = "Ok"
                    /\ f.hash = loc.prefetch.v
    /\ (Done /\ loc.prefetch.tag = "Err") => Returned(loc.prefetch)

\* a tarball was returned with the hash its one Prefetch call gave
C2_Witness ==
    /\ Done
    /\ ReturnedPackage
    /\ result.v.fetcher.type = "FetchTarball"
    /\ calls = <<result.v.fetcher.url>>
    /\ result.v.fetcher.hash = <<"G">>

----------------------------------------------------------------------------
(* Text taken apart by position, for the claims' reference values *)

HasChar(s, c) == \E j \in 1..Len(s) : s[j] = c

\* 1-based position of the first c in s
FirstChar(s, c) == CHOOSE j \in 1..Len(s) : s[j] = c /\ \A i \in 1..(j - 1) : s[i] # c

\* 1-based position of the last c in s
LastChar(s, c) == CHOOSE j \in 1..Len(s) : s[j] = c /\ \A i \in (j + 1)..Len(s) : s[i] # c

Before(s, j) == SubSeq(s, 1, j - 1)

After(s, j) == SubSeq(s, j + 1, Len(s))

HasPrefix(s, p) == Len(s) >= Len(p) /\ \A j \in 1..Len(p) : s[j] = p[j]

HasWord(s, w) == \E j \in 0..Len(s) : HasPrefix(After(s, j), w)

\* the positions of an '@' in id that is followed by one of the scheme words
SchemeAts(id, words) ==
    {j \in 1..Len(id) : id[j] = "@" /\ \E w \in words : HasPrefix(After(id, j), w)}

\* the P of an identifier name@P: the text after the first '@' that a scheme follows
SchemePart(id, words) ==
    After(id, CHOOSE j \in SchemeAts(id, words) : \A i \in SchemeAts(id, words) : j <= i)

----------------------------------------------------------------------------
(* C3 *)

\* the three steps of to_npm_url, by position
RefNpmUrl(ident, tarball_url) ==
    IF tarball_url # None /\ Len(tarball_url[1]) > 0
    THEN Ok(tarball_url[1])
    ELSE LET scoped == HasChar(ident, "/")
             user == IF scoped THEN Before(ident, FirstChar(ident, "/")) \o <<"/">> ELSE <<>>
             rest == IF scoped THEN After(ident, FirstChar(ident, "/")) ELSE ident
         IN  IF ~HasChar(rest, "@") THEN Err(NoAtInPackageIdentifier)
             ELSE LET n == Before(rest, FirstChar(rest, "@"))
                      version == After(rest, FirstChar(rest, "@"))
                  IN  Ok(DEFAULT_REGISTRY \o user \o n \o DashSlash \o n \o <<"-">>
                         \o version \o Tgz)

\* C3: to_npm_url(ident, tarball_url) is the three-step reference: a non-empty
\* explicit URL verbatim whatever ident is, Some("") as None, otherwise the default
\* registry URL from the first '/' and the first '@' after it (the first '@' when
\* there is no '/'), NoAtInPackageIdentifier when that '@' is absent.
C3_NpmUrl ==
    Done =>
      /\ Returned(RefNpmUrl(name, loc.tarball_url))
      /\ loc.tarball_url = Some(<<>>) => Returned(to_npm_url(name, None))
      /\ (loc.tarball_url # None /\ loc.tarball_url # Some(<<>>)) =>
            Returned(Ok(Unwrap(loc.tarball_url)))

\* the documentation's example with Some("") gave the default registry URL
C3_Witness ==
    /\ Done
    /\ name = NpmUrlExample
    /\ loc.tarball_url = Some(<<>>)
    /\ Returned(Ok(
        <<"h", "t", "t", "p", "s", ":", "/", "/", "r", "e", "g", "i", "s", "t", "r",
        "y", ".", "n", "p", "m", "j", "s", ".", "o", "r", "g", "/", "@", "a", "l", "l",
        "o", "c", "/", "q", "u", "i", "c", "k", "-", "l", "r", "u", "/", "-", "/", "q",
        "u", "i", "c", "k", "-", "l", "r", "u", "-", "5", ".", "2", ".", "0", ".", "t",
        "g", "z">>))

----------------------------------------------------------------------------
(* C4 *)

\* "{name}-{version}.tgz" of an identifier: name and version around the first '@'
\* after the first '/', else around the first '@', else the identifier itself
RefTgzName(id) ==
    LET rest == IF HasChar(id, "/") THEN After(id, FirstChar(id, "/")) ELSE id
        from == IF HasChar(rest, "@") THEN rest ELSE id
    IN  IF HasChar(from, "@")
        THEN Before(from, FirstChar(from, "@")) \o <<"-">>
             \o After(from, FirstChar(from, "@")) \o Tgz
        ELSE id \o Tgz

\* the entry is [id, u, meta, h] with id and h JSON strings
IsNpmEntry == Arity = 4 /\ IsString(entry.values[1]) /\ IsString(entry.values[4])

\* the tarball_url the npm decoder reads: u unescaped when u is a non-empty string
NpmExplicitUrl ==
    IF IsString(entry.values[2]) /\ entry.values[2].s # <<>>
    THEN Some(entry.values[2].s) ELSE None

\* the Package the claim describes for [id, u, meta, h]
NpmPackageOf(id, h) ==
    Package(id, FetchUrl(to_npm_url(id, NpmExplicitUrl).v, h,
                         IF NpmExplicitUrl # None THEN Some(RefTgzName(id)) ELSE None))

\* C4 as stated: every [id, u, meta, h] with id and h JSON strings decodes to the
\* Package named id with FetchUrl{hash = h, url = to_npm_url(id, u), name = Some of
\* the .tgz filename exactly when u is a non-empty string}.
C4_Original ==
    (Done /\ IsNpmEntry) =>
       /\ ReturnedPackage
       /\ result.v = NpmPackageOf(InlineText(entry.values[1]), InlineText(entry.values[4]))

\* C4, amended: for [id, u, meta, h] with id and h JSON strings (taken as their
\* JSON text without the quotes, u read unescaped) the decode panics when the build
\* has debug assertions and h lacks "sha512-", else returns to_npm_url(id, u)'s
\* NoAtInPackageIdentifier when that fails, else returns the Package named id with
\* FetchUrl{hash = h, url = to_npm_url(id, u), name = Some of the .tgz filename
\* exactly when u is a non-empty string}; meta never matters.
C4_NpmDecode ==
    (Done /\ IsNpmEntry) =>
       LET id == InlineText(entry.values[1])
           h == InlineText(entry.values[4])
       IN  IF debug /\ ~HasWord(h, Sha512)
           THEN result.tag = "panic"
           ELSE IF to_npm_url(id, NpmExplicitUrl).tag = "Err"
           THEN Returned(Err(NoAtInPackageIdentifier))
           ELSE ReturnedPackage /\ result.v = NpmPackageOf(id, h)

\* the documented entry with an explicit tarball URL got its filename
C4_Witness ==
    /\ Done
    /\ IsNpmEntry
    /\ entry.values[1] = StringValue(NpmExample)
    /\ entry.values[2] = StringValue(<<"u", Quote>>)
    /\ ReturnedPackage
    /\ result.v.name = NpmExample
    /\ result.v.fetcher = FetchUrl(<<"u", Quote>>, Sha512 \o <<"a">>,
                                   Some(<<"b", "u", "n", "-", "1", ".", "2", ".", "4">> \o Tgz))

----------------------------------------------------------------------------
(* C5 *)

\* the entry is [name@P, x] with P starting with one of the words
IsTarballOrFileEntry(words) ==
    /\ Arity = 2
    /\ IsString(entry.values[1])
    /\ SchemeAts(InlineText(entry.values[1]), words) # {}

\* C5 as stated: [name@P, x] with P an http(s) URL calls Prefetch on P and returns
\* Package{"tarball:" + P, FetchTarball{P, prefetched hash}}; with P = file:<path>
\* holding no "http" it returns Package{entry name, CopyToStore{<path>}}.
C5_Original ==
    (Done /\ IsTarballOrFileEntry({Http, FileColon})) =>
       LET P == SchemePart(InlineText(entry.values[1]), {Http, FileColon})
       IN  /\ HasPrefix(P, Http) =>
                /\ calls = <<P>>
                /\ loc.prefetch.tag = "Ok" =>
                      /\ ReturnedPackage
                      /\ result.v = Package(TarballColon \o P,
                                            FetchTarball(P, loc.prefetch.v))
           /\ (HasPrefix(P, FileColon) /\ ~HasWord(P, Http)) =>
                /\ ReturnedPackage
                /\ result.v = Package(entry.name,
                                      CopyToStore(SubSeq(P, Len(FileColon) + 1, Len(P))))

----------------------------------------------------------------------------
(* C6 *)

\* the entry is [name@git+U#R, x, y]
IsGitEntry ==
    /\ Arity = 3
    /\ IsString(entry.values[1])
    /\ SchemeAts(InlineText(entry.values[1]), {GitPlus}) # {}
    /\ HasChar(SchemePart(InlineText(entry.values[1]), {GitPlus}), "#")

\* C6 as stated: [name@git+U#R, ...] with no '#' in U calls Prefetch with
\* "git+U?rev=R" and, when that succeeds, returns
\* Package{"git:R", FetchGit{U, R, prefetched hash}}.
C6_Original ==
    (Done /\ IsGitEntry) =>
       LET P == SchemePart(InlineText(entry.values[1]), {GitPlus})
           UR == SubSeq(P, Len(GitPlus) + 1, Len(P))
           U == Before(UR, FirstChar(UR, "#"))
           R == After(UR, FirstChar(UR, "#"))
       IN  /\ calls = <<GitPlus \o U \o RevQuery \o R>>
           /\ loc.prefetch.tag = "Ok" =>
                 /\ ReturnedPackage
                 /\ result.v = Package(GitColon \o R, FetchGit(U, R, loc.prefetch.v))

----------------------------------------------------------------------------
(* C7 *)

\* the text after "github:" in the entry's identifier
GithubRest ==
    LET P == SchemePart(InlineText(entry.values[1]), {GithubPrefix})
    IN  SubSeq(P, Len(GithubPrefix) + 1, Len(P))

\* the entry is [name@github:O/R#V, x, y], O without '/' and '#', R without '#'
IsGithubEntry ==
    /\ Arity = 3
    /\ IsString(entry.values[1])
    /\ SchemeAts(InlineText(entry.values[1]), {GithubPrefix}) # {}
    /\ HasChar(GithubRest, "/")
    /\ ~HasChar(Before(GithubRest, FirstChar(GithubRest, "/")), "#")
    /\ HasChar(After(GithubRest, FirstChar(GithubRest, "/")), "#")

\* C7 as stated: [name@github:O/R#V, ...] calls Prefetch with "github:O/R?ref=V"
\* and, when that succeeds, returns
\* Package{"github:O-R-V", FetchGitHub{O, R, V, prefetched hash}}.
C7_Original ==
    (Done /\ IsGithubEntry) =>
       LET O == Before(GithubRest, FirstChar(GithubRest, "/"))
           RV == After(GithubRest, FirstChar(GithubRest, "/"))
           R == Before(RV, FirstChar(RV, "#"))
           V == After(RV, FirstChar(RV, "#"))
       IN  /\ calls = <<GithubPrefix \o O \o <<"/">> \o R \o RefQuery \o V>>
           /\ loc.prefetch.tag = "Ok" =>
                 /\ ReturnedPackage
                 /\ result.v = Package(GithubPrefix \o O \o <<"-">> \o R \o <<"-">> \o V,
                                       FetchGitHub(O, R, V, loc.prefetch.v))

----------------------------------------------------------------------------
(* C8 *)

\* the entry conforms to the documented layout of its length
ConformsToLayout ==
    /\ Arity \in 1..4
    /\ IsString(entry.values[1])
    /\ Arity = 1 => HasWord(InlineText(entry.values[1]), WorkspaceColon)
    /\ Arity = 2 => SchemeAts(InlineText(entry.values[1]), {Http, FileColon}) # {}
    /\ Arity = 3 => HasChar(InlineText(entry.values[1]), "@")
    /\ Arity = 4 => /\ IsString(entry.values[4])
                    /\ HasPrefix(InlineText(entry.values[4]), Sha512)

\* C8 as stated: no debug assertion fires while an entry that conforms to the
\* documented layouts is decoded.
C8_Original == ConformsToLayout => result.tag # "panic"

----------------------------------------------------------------------------
(* C9 *)

\* the text after the last '@' of the entry's identifier
GithubSpec ==
    After(InlineText(entry.values[1]), LastChar(InlineText(entry.values[1]), "@"))

\* the entry is of length 3 and its spec starts with "github:"
HasGithubSpec ==
    /\ Arity = 3
    /\ IsString(entry.values[1])
    /\ HasChar(InlineText(entry.values[1]), "@")
    /\ HasPrefix(GithubSpec, GithubPrefix)

\* the spec has a '#' and no '/' before the first one
LacksOwnerSlash ==
    /\ HasChar(GithubSpec, "#")
    /\ ~HasChar(Before(GithubSpec, FirstChar(GithubSpec, "#")), "/")

\* C9 as stated: a GitHub spec without '#' fails with MissingGitRef, one with '#'
\* and no '/' before it fails with ImproperGithubUrl, whatever Prefetch returns.
C9_Original ==
    (Done /\ HasGithubSpec) =>
       /\ ~HasChar(GithubSpec, "#") => Returned(Err(MissingGitRef))
       /\ LacksOwnerSlash => Returned(Err(ImproperGithubUrl))

\* C9, amended: a GitHub spec without '#' fails with MissingGitRef and Prefetch is
\* never called; one with '#' and no '/' before it first calls Prefetch with
\* "{path}?ref={rev}" and fails with ImproperGithubUrl when that call succeeds and
\* with the Prefetch error when it fails.
C9_GithubErrors ==
    (Done /\ HasGithubSpec) =>
       /\ ~HasChar(GithubSpec, "#") =>
             /\ Returned(Err(MissingGitRef))
             /\ calls = <<>>
       /\ LacksOwnerSlash =>
             /\ calls = <<Before(GithubSpec, FirstChar(GithubSpec, "#")) \o RefQuery
                          \o After(GithubSpec, FirstChar(GithubSpec, "#"))>>
             /\ loc.prefetch.tag = "Ok" => Returned(Err(ImproperGithubUrl))
             /\ loc.prefetch.tag = "Err" => Returned(loc.prefetch)

\* a GitHub spec without '/' was refused after its Prefetch call succeeded
C9_Witness ==
    /\ Done
    /\ HasGithubSpec
    /\ LacksOwnerSlash
    /\ Len(calls) = 1
    /\ loc.prefetch.tag = "Ok"
    /\ Returned(Err(ImproperGithubUrl))

----------------------------------------------------------------------------
(* C10 *)

\* the vector handed to swap_remove_value holds JSON strings only
AllStrings == \A j \in 1..Arity : IsString(entry.values[j])

\* what C10 says of the value returned and of the positions of the vector
SwapRemoveShape ==
    /\ result.tag = "Ok"
    /\ <<Quote>> \o result.v \o <<Quote>> = to_string(entry.values[loc.index + 1])
    /\ Len(values) = Arity - 1
    /\ loc.index + 1 < Arity => values[loc.index + 1] = entry.values[Arity]
    /\ \A j \in 1..(Arity - 1) : j # loc.index + 1 => values[j] = entry.values[j]

\* C10 as stated: swap_remove_value returns the element at i without its quotes,
\* shortens the vector by one, puts the former last element at i, leaves the other
\* positions alone, and afterwards the vector does not contain the taken string.
C10_Original ==
    (Done /\ AllStrings) =>
       /\ SwapRemoveShape
       /\ \A j \in 1..Len(values) : InlineText(values[j]) # result.v

\* C10, amended: swap_remove_value returns the JSON text of the element at i
\* without its quotes (escapes kept), shortens the vector by one, puts the former
\* last element at i, leaves the other positions alone; afterwards the vector
\* holds the taken string exactly when another position held an equal string.
C10_SwapRemoveValue ==
    (Done /\ AllStrings) =>
       /\ SwapRemoveShape
       /\ (\E j \in 1..Len(values) : InlineText(values[j]) = result.v)
             <=> (\E j \in 1..Arity :
                     j # loc.index + 1 /\ entry.values[j] = entry.values[loc.index + 1])

\* the first of three distinct strings was taken and the last moved into its place
C10_Witness ==
    /\ Done
    /\ AllStrings
    /\ Arity = 3
    /\ loc.index = 0
    /\ entry.values[1] = StringValue(<<"b", Quote>>)
    /\ result.tag = "Ok"
    /\ result.v = <<"b", Backslash, Quote>>
    /\ values = <<entry.values[3], entry.values[2]>>
    /\ entry.values[3] # entry.values[2]

====
